---- MODULE Spec2Model ----
(***************************************************************************)
(* A model of the monkey bytecode instruction set (package code) and of    *)
(* the Pratt parser skeleton (package parser) with the AST printer         *)
(* (package ast).                                                          *)
(*                                                                         *)
(* Go slices are 0-based; TLA+ sequences are 1-based.  Offsets keep the    *)
(* 0-based values of the source and are shifted where a sequence is        *)
(* indexed (At, SliceFrom).                                                *)
(***************************************************************************)
EXTENDS Integers, Sequences, FiniteSets, TLC

VARIABLES
    (* package code: one call of Lookup / Make / ReadOperands *)
    op,           \* the opcode byte handed to Lookup and Make
    operands,     \* the operand list handed to Make
    cpc,          \* position of the caller: "start", "looked", "made", "read", "panic"
    lookupRes,    \* what Lookup returned: [def, err]
    instruction,  \* what Make returned
    readRes,      \* what ReadOperands returned: [operands, offset]
    (* Instructions.String *)
    prog,         \* the chunks the stream was built from (input)
    ins,          \* the receiver of String: the byte stream
    i,            \* the loop offset of String
    out,          \* the bytes.Buffer of String
    spc,          \* position in String: "loop", "returned", "panic"
    iter,         \* loop iterations of String executed so far
    (* Parser *)
    input,        \* the tokens the lexer has to hand out, without the closing EOF
    p,            \* the Parser: [l, errors, curToken, peekToken, curPos]
    program,      \* program.Statements of the running ParseProgram
    ppc,          \* position in ParseProgram and the statement parsers
    stmt,         \* the statement a statement parser is building
    ret           \* what parseStatement returned to ParseProgram

codeVars == <<op, operands, cpc, lookupRes, instruction, readRes>>
disVars  == <<prog, ins, i, out, spc, iter>>
parseVars == <<input, p, program, ppc, stmt, ret>>
vars     == <<codeVars, disVars, parseVars>>

---------------------------------------------------------------------------
(* Bounds of the model *)

\* Streams handed to String are built from at most MaxChunks chunks.
MaxChunks == 2
\* String is followed for at most MaxIter loop iterations.
MaxIter == 4
\* The parser is run on every token sequence of at most MaxTokens tokens ...
MaxTokens == 4
\* ... and on every sequence of at most MaxStmts statements of the catalogue.
MaxStmts == 2

---------------------------------------------------------------------------
(* Helpers for Go values *)

Byte == 0..255

\* a conversion that clamps to the range of uint16 instead of wrapping
Uint16Saturating(o) == IF o > 65535 THEN 65535 ELSE IF o < 0 THEN 0 ELSE o

\* uint16(o): conversion of a Go int to uint16 keeps the low 16 bits.
Uint16(o) == o % 65536

\* s[k] for a 0-based index k.
At(s, k) == s[k + 1]

\* s[k:] for a 0-based index k (k <= len(s)).
SliceFrom(s, k) == SubSeq(s, k + 1, Len(s))

RECURSIVE Sum(_)
Sum(ws) == IF ws = <<>> THEN 0 ELSE Head(ws) + Sum(Tail(ws))

Zeros(n) == [k \in 1..n |-> 0]

Digits == <<"0", "1", "2", "3", "4", "5", "6", "7", "8", "9">>

RECURSIVE FmtNat(_)
FmtNat(n) == IF n < 10 THEN Digits[n + 1]
             ELSE FmtNat(n \div 10) \o Digits[(n % 10) + 1]

\* fmt verb %d
FmtD(n) == IF n < 0 THEN "-" \o FmtNat(-n) ELSE FmtNat(n)

RECURSIVE ZeroPad(_, _)
ZeroPad(s, w) == IF Len(s) >= w THEN s ELSE ZeroPad("0" \o s, w)

\* fmt verb %04d: sign first, then zeros up to a total width of 4
Fmt04d(n) == IF n < 0 THEN "-" \o ZeroPad(FmtNat(-n), 3) ELSE ZeroPad(FmtNat(n), 4)

---------------------------------------------------------------------------
(* package code: the opcode enumeration and its definitions *)

OpConstant      == 0
OpAdd           == 1
OpPop           == 2
OpSub           == 3
OpMul           == 4
OpDiv           == 5
OpTrue          == 6
OpFalse         == 7
OpEqual         == 8
OpNotEqual      == 9
OpGreaterThan   == 10
OpMinus         == 11
OpBang          == 12
OpJumpNotTruthy == 13
OpJump          == 14
OpNull          == 15
OpGetGlobal     == 16
OpSetGlobal     == 17
OpArray         == 18
OpHash          == 19
OpIndex         == 20
OpCall          == 21
OpReturnValue   == 22
OpReturn        == 23

Definition(name, widths) == [Name |-> name, OperandWidths |-> widths]

\* definitions with the entry of OpReturn left out
definitionsNoReturn ==
    (OpConstant :> Definition("OpConstant", <<2>>)) @@
    (OpAdd :> Definition("OpAdd", <<>>)) @@
    (OpPop :> Definition("OpPop", <<>>)) @@
    (OpSub :> Definition("OpSub", <<>>)) @@
    (OpMul :> Definition("OpMul", <<>>)) @@
    (OpDiv :> Definition("OpDiv", <<>>)) @@
    (OpTrue :> Definition("OpTrue", <<>>)) @@
    (OpFalse :> Definition("OpFalse", <<>>)) @@
    (OpEqual :> Definition("OpEqual", <<>>)) @@
    (OpNotEqual :> Definition("OpNotEqual", <<>>)) @@
    (OpGreaterThan :> Definition("OpGreaterThan", <<>>)) @@
    (OpMinus :> Definition("OpMinus", <<>>)) @@
    (OpBang :> Definition("OpBang", <<>>)) @@
    (OpJumpNotTruthy :> Definition("OpJumpNotTruthy", <<2>>)) @@
    (OpJump :> Definition("OpJump", <<2>>)) @@
    (OpNull :> Definition("OpNull", <<>>)) @@
    (OpGetGlobal :> Definition("OpGetGlobal", <<2>>)) @@
    (OpSetGlobal :> Definition("OpSetGlobal", <<2>>)) @@
    (OpArray :> Definition("OpArray", <<2>>)) @@
    (OpHash :> Definition("OpHash", <<2>>)) @@
    (OpIndex :> Definition("OpIndex", <<>>)) @@
    (OpCall :> Definition("OpCall", <<>>)) @@
    (OpReturnValue :> Definition("OpReturnValue", <<>>))

definitions ==
    definitionsNoReturn @@ (OpReturn :> Definition("OpReturn", <<>>))

\* a nil *Definition
NilDef == Definition("", <<>>)
\* a nil error
NoErr == ""

Lookup(b) ==
    IF b \in DOMAIN definitions
    THEN [def |-> definitions[b], err |-> NoErr]
    ELSE [def |-> NilDef, err |-> "opcode " \o FmtD(b) \o " undefined"]

\* PutUint16 writing the low byte first
PutUint16LittleEndian(v) == <<v % 256, (v \div 256) % 256>>

\* binary.BigEndian.PutUint16(b, v): b[0] = byte(v >> 8); b[1] = byte(v)
PutUint16(v) == <<(v \div 256) % 256, v % 256>>

\* Uint16 taking the first byte as the low one
ReadUint16LittleEndian(b) == b[1] + b[2] * 256

\* binary.BigEndian.Uint16(b) = uint16(b[1]) | uint16(b[0])<<8
ReadUint16(b) == b[1] * 256 + b[2]

\* instruction with the bytes bs written at 0-based offset
WriteAt(instr, offset, bs) ==
    [k \in 1..Len(instr) |->
        IF k > offset /\ k <= offset + Len(bs) THEN bs[k - offset] ELSE instr[k]]

\* Make indexes def.OperandWidths[i] for every operand handed in, and
\* PutUint16 needs two bytes at the offset (always there when the index is).
MakePanics(o, xs) ==
    o \in DOMAIN definitions /\ Len(xs) > Len(definitions[o].OperandWidths)

\* the operand loop of Make, from operand k (1-based) on
RECURSIVE MakeLoop(_, _, _, _, _)
MakeLoop(widths, xs, k, offset, instr) ==
    IF k > Len(xs) THEN instr
    ELSE LET width == widths[k]
             written == IF width = 2
                        THEN WriteAt(instr, offset, PutUint16(Uint16(xs[k])))
                        ELSE instr
         IN  MakeLoop(widths, xs, k + 1, offset + width, written)

Make(o, xs) ==
    IF o \notin DOMAIN definitions THEN <<>>
    ELSE LET def == definitions[o]
             instructionLen == 1 + Sum(def.OperandWidths)
             instr == [Zeros(instructionLen) EXCEPT ![1] = o]
         IN  MakeLoop(def.OperandWidths, xs, 1, 1, instr)

\* ReadOperands slices ins[offset:] and reads two bytes of it
RECURSIVE ReadPanicsFrom(_, _, _, _)
ReadPanicsFrom(widths, bytes, k, offset) ==
    IF k > Len(widths) THEN FALSE
    ELSE \/ widths[k] = 2 /\ offset + 2 > Len(bytes)
         \/ ReadPanicsFrom(widths, bytes, k + 1, offset + widths[k])

ReadOperandsPanics(def, bytes) == ReadPanicsFrom(def.OperandWidths, bytes, 1, 0)

RECURSIVE ReadLoop(_, _, _, _, _)
ReadLoop(widths, bytes, k, offset, acc) ==
    IF k > Len(widths) THEN [operands |-> acc, offset |-> offset]
    ELSE LET width == widths[k]
             val == IF width = 2 THEN ReadUint16(SliceFrom(bytes, offset)) ELSE acc[k]
         IN  ReadLoop(widths, bytes, k + 1, offset + width, [acc EXCEPT ![k] = val])

ReadOperands(def, bytes) ==
    ReadLoop(def.OperandWidths, bytes, 1, 0, Zeros(Len(def.OperandWidths)))

fmtInstruction(def, ops) ==
    LET operandCount == Len(def.OperandWidths)
    IN  IF Len(ops) # operandCount
        THEN "ERROR: operand len " \o FmtD(Len(ops)) \o " does not match defined "
             \o FmtD(operandCount) \o "\n"
        ELSE IF operandCount = 0 THEN def.Name
        ELSE IF operandCount = 1 THEN def.Name \o " " \o FmtD(ops[1])
        ELSE "ERROR: unhandled operandCount for " \o def.Name \o "\n"

---------------------------------------------------------------------------
(* package token and the lexer, as the parser uses them *)

ILLEGAL   == "ILLEGAL"
EOF       == "EOF"
IDENT     == "IDENT"
INT       == "INT"
ASSIGN    == "="
PLUS      == "+"
MINUS     == "-"
ASTERISK  == "*"
SEMICOLON == ";"
\* token.LET (LET is a reserved word here)
TokLET    == "LET"
RETURN    == "RETURN"

Token(type, literal) == [Type |-> type, Literal |-> literal]

\* the zero value of token.Token
ZeroToken == Token("", "")

EOFToken == Token(EOF, "")

\* l.NextToken(): the next token of the input, and EOF on every call after
\* the last one.  l counts the tokens handed out.
LexerNextToken(l) ==
    IF l < Len(input)
    THEN [tok |-> input[l + 1], l |-> l + 1]
    ELSE [tok |-> EOFToken, l |-> l]

---------------------------------------------------------------------------
(* package ast *)

\* a nil ast.Expression
NilExpression == [type |-> "nil", Token |-> ZeroToken, Value |-> "", IntValue |-> 0]

Identifier(tok, value) ==
    [type |-> "*ast.Identifier", Token |-> tok, Value |-> value, IntValue |-> 0]

IntegerLiteral(tok, value) ==
    [type |-> "*ast.IntegerLiteral", Token |-> tok, Value |-> "", IntValue |-> value]

\* An ast.Statement is an interface value: a dynamic type and a pointer.
\* type = "nil" is the nil interface; isNil says the pointer is nil.
\* at is bookkeeping: the input position of the statement's first token.
Statement(type, isNil, tok, name, exp, at) ==
    [type |-> type, isNil |-> isNil, Token |-> tok, Name |-> name,
     Expression |-> exp, at |-> at]

\* the nil interface value
NilStatement == Statement("nil", TRUE, ZeroToken, NilExpression, NilExpression, 0)

\* stmt != nil on an interface value: only the nil interface equals nil
StatementNotNil(s) == s.type # "nil"

\* Identifier.String, IntegerLiteral.String
ExpressionString(e) ==
    IF e.type = "*ast.Identifier" THEN e.Value ELSE e.Token.Literal

\* LetStatement.String, ReturnStatement.String, ExpressionStatement.String.
\* The parser sets neither LetStatement.Value nor ReturnStatement.ReturnValue.
StatementString(s) ==
    IF s.type = "*ast.LetStatement"
    THEN s.Token.Literal \o " " \o ExpressionString(s.Name) \o " = " \o ";"
    ELSE IF s.type = "*ast.ReturnStatement"
    THEN s.Token.Literal \o " " \o ";"
    ELSE IF s.Expression.type # "nil" THEN ExpressionString(s.Expression) ELSE ""

\* String on a nil *LetStatement reads ls.Token through the nil pointer
ProgramStringPanics(statements) ==
    \E k \in 1..Len(statements) : statements[k].isNil

RECURSIVE ProgramString(_)
ProgramString(statements) ==
    IF statements = <<>> THEN ""
    ELSE StatementString(Head(statements)) \o ProgramString(Tail(statements))

---------------------------------------------------------------------------
(* package parser *)

LOWEST     == 1
EQUALS     == 2
LESSGRETER == 3
SUM        == 4
PRODUCT    == 5
PREFIX     == 6
CALL       == 7

\* what New registers: prefixParseFns; infixParseFns stays empty
prefixParseFns == (IDENT :> "parseIdentifier") @@ (INT :> "parseIntegerLiteral")

Min(a, b) == IF a < b THEN a ELSE b

\* curPos is bookkeeping: the input position of curToken, Len(input) + 1
\* once it is the EOF token.
nextToken(q) ==
    LET r == LexerNextToken(q.l)
    IN  [q EXCEPT !.curToken = q.peekToken,
                  !.peekToken = r.tok,
                  !.l = r.l,
                  !.curPos = Min(@ + 1, Len(input) + 1)]

New ==
    nextToken(nextToken(
        [l |-> 0, errors |-> <<>>, curToken |-> ZeroToken, peekToken |-> ZeroToken,
         curPos |-> -1]))

curTokenIs(q, t) == q.curToken.Type = t
peekTokenIs(q, t) == q.peekToken.Type = t

peekError(q, t) ==
    [q EXCEPT !.errors = Append(@,
        "expected next token to be " \o t \o ", got " \o q.peekToken.Type \o " instead")]

\* expectPeek advancing also when the token is not the expected one
expectPeekAdvancing(q, t) ==
    IF peekTokenIs(q, t)
    THEN [q |-> nextToken(q), ok |-> TRUE]
    ELSE [q |-> nextToken(peekError(q, t)), ok |-> FALSE]

expectPeek(q, t) ==
    IF peekTokenIs(q, t)
    THEN [q |-> nextToken(q), ok |-> TRUE]
    ELSE [q |-> peekError(q, t), ok |-> FALSE]

parseIdentifier(q) ==
    [q |-> q, exp |-> Identifier(q.curToken, q.curToken.Literal)]

Char(s, k) == SubSeq(s, k, k)

DigitValue(c) == CHOOSE d \in 0..9 : Digits[d + 1] = c

IsDigitBelow(c, base) == \E d \in 0..(base - 1) : Digits[d + 1] = c

RECURSIVE DigitsValue(_, _)
DigitsValue(s, base) ==
    IF s = "" THEN 0
    ELSE DigitsValue(SubSeq(s, 1, Len(s) - 1), base) * base + DigitValue(Char(s, Len(s)))

\* strconv.ParseInt(s, 0, 64) on a literal of decimal digits, as the lexer
\* makes them: with base 0 a leading "0" before more digits selects base 8.
\* Literals here have at most nine digits, so the value is in range.
ParseInt(s) ==
    LET octal  == Len(s) > 1 /\ Char(s, 1) = "0"
        base   == IF octal THEN 8 ELSE 10
        digits == IF octal THEN SubSeq(s, 2, Len(s)) ELSE s
        ok     == s # "" /\ \A k \in 1..Len(digits) : IsDigitBelow(Char(digits, k), base)
    IN  [ok |-> ok, value |-> IF ok THEN DigitsValue(digits, base) ELSE 0]

\* fmt verb %q on a literal without characters to escape
FmtQ(s) == "\"" \o s \o "\""

parseIntegerLiteral(q) ==
    LET r == ParseInt(q.curToken.Literal)
    IN  IF ~r.ok
        THEN [q |-> [q EXCEPT !.errors = Append(@,
                        "could not parse " \o FmtQ(q.curToken.Literal) \o " as integer")],
              exp |-> NilExpression]
        ELSE [q |-> q, exp |-> IntegerLiteral(q.curToken, r.value)]

parseExpression(q, precedence) ==
    IF q.curToken.Type \notin DOMAIN prefixParseFns
    THEN [q |-> q, exp |-> NilExpression]
    ELSE IF prefixParseFns[q.curToken.Type] = "parseIdentifier"
    THEN parseIdentifier(q)
    ELSE parseIntegerLiteral(q)

parseExpressionStatement(q) ==
    LET r == parseExpression(q, LOWEST)
        s == Statement("*ast.ExpressionStatement", FALSE, q.curToken, NilExpression,
                       r.exp, q.curPos)
    IN  [q |-> IF peekTokenIs(r.q, SEMICOLON) THEN nextToken(r.q) ELSE r.q,
         stmt |-> s]

\* return nil in parseLetStatement: a nil *ast.LetStatement, which
\* parseStatement hands on as an ast.Statement
NilLetStatement(at) ==
    Statement("*ast.LetStatement", TRUE, ZeroToken, NilExpression, NilExpression, at)

\* ParseProgram's p.nextToken() after a statement, called twice
loopAdvanceTwice(q) == nextToken(nextToken(q))

\* ParseProgram's p.nextToken() after a statement
loopAdvance(q) == nextToken(q)

parseIdle ==
    /\ input = <<>>
    /\ p = [l |-> 0, errors |-> <<>>, curToken |-> ZeroToken, peekToken |-> ZeroToken,
            curPos |-> 0]
    /\ program = <<>>
    /\ ppc = "idle"
    /\ stmt = NilStatement
    /\ ret = NilStatement

---------------------------------------------------------------------------
(* Callers of the instruction set: Lookup, then Make, then ReadOperands on  *)
(* the operand bytes of what Make returned (code_test.go, String).          *)

MaxUint16 == 65535

\* operands handed to an opcode that takes one
OperandValues == 0..MaxUint16

\* operands outside the range of a 2-byte field: just past either end, one
\* and two whole turns away, and with the low or the high byte alone set
OverflowOperands ==
    {-131072, -65537, -65536, -65535, -256, -1,
     65536, 65537, 65790, 131071, 131072, 16777215}

\* operands handed to an opcode that takes none, or to an undefined one
StrayOperands == {0, MaxUint16}

HasOperands(o) == o \in DOMAIN definitions /\ definitions[o].OperandWidths # <<>>

OperandLists(o) ==
    {<<>>} \cup {<<x>> : x \in (IF HasOperands(o)
                                 THEN OperandValues \cup OverflowOperands
                                 ELSE StrayOperands)}

codeIdle ==
    /\ op = 0 /\ operands = <<>> /\ cpc = "idle"
    /\ lookupRes = [def |-> NilDef, err |-> NoErr]
    /\ instruction = <<>>
    /\ readRes = [operands |-> <<>>, offset |-> 0]

disIdle ==
    /\ prog = <<>> /\ ins = <<>> /\ i = 0 /\ out = "" /\ spc = "idle" /\ iter = 0

CodeInit ==
    /\ op \in Byte
    /\ operands \in OperandLists(op)
    /\ cpc = "start"
    /\ lookupRes = [def |-> NilDef, err |-> NoErr]
    /\ instruction = <<>>
    /\ readRes = [operands |-> <<>>, offset |-> 0]
    /\ disIdle
    /\ parseIdle

CallLookup ==
    /\ cpc = "start"
    /\ lookupRes' = Lookup(op)
    /\ cpc' = "looked"
    /\ UNCHANGED <<op, operands, instruction, readRes, disVars, parseVars>>

CallMake ==
    /\ cpc = "looked"
    /\ ~MakePanics(op, operands)
    /\ instruction' = Make(op, operands)
    /\ cpc' = "made"
    /\ UNCHANGED <<op, operands, lookupRes, readRes, disVars, parseVars>>

CallMakePanic ==
    /\ cpc = "looked"
    /\ MakePanics(op, operands)
    /\ cpc' = "panic"
    /\ UNCHANGED <<op, operands, lookupRes, instruction, readRes, disVars, parseVars>>

\* ReadOperands(def, instruction[1:]) for the def Lookup found
CallReadOperands ==
    /\ cpc = "made"
    /\ lookupRes.err = NoErr
    /\ ~ReadOperandsPanics(lookupRes.def, SliceFrom(instruction, 1))
    /\ readRes' = ReadOperands(lookupRes.def, SliceFrom(instruction, 1))
    /\ cpc' = "read"
    /\ UNCHANGED <<op, operands, lookupRes, instruction, disVars, parseVars>>

CodeNext == CallLookup \/ CallMake \/ CallMakePanic \/ CallReadOperands

SpecCode == CodeInit /\ [][CodeNext]_vars

---------------------------------------------------------------------------
(* Claims about Make, ReadOperands and Lookup, checked under SpecCode *)

\* the 24 tags of the opcode enumeration
OpcodeTags == OpConstant..OpReturn

\* xs is an operand list matching the definition of o, each operand in 0..65535
MatchesDefinition(o, xs) ==
    /\ o \in OpcodeTags
    /\ Len(xs) = Len(definitions[o].OperandWidths)
    /\ \A k \in 1..Len(xs) : xs[k] \in 0..MaxUint16

\* C1: for an opcode with operands and an operand list matching its
\* definition, ReadOperands on the operand bytes of Make's result returns
\* the operand list and the sum of the operand widths.
C1_RoundTrip ==
    (cpc = "read" /\ HasOperands(op) /\ MatchesDefinition(op, operands))
        => /\ readRes.operands = operands
           /\ readRes.offset = Sum(definitions[op].OperandWidths)

C1_Witness ==
    /\ cpc = "read" /\ op = OpJump /\ operands = <<65534>>
    /\ readRes = [operands |-> <<65534>>, offset |-> 2]

\* C2: Make returns 1 + (sum of widths) bytes, the tag first, each 2-byte
\* operand with its high byte (o div 256) before its low byte (o mod 256);
\* an opcode without operands yields the tag byte alone.
C2_ByteLayout ==
    (cpc \in {"made", "read"} /\ MatchesDefinition(op, operands))
        => /\ Len(instruction) = 1 + Sum(definitions[op].OperandWidths)
           /\ instruction[1] = op
           /\ operands # <<>> =>
                /\ instruction[2] = operands[1] \div 256
                /\ instruction[3] = operands[1] % 256
           /\ operands = <<>> => instruction = <<op>>

C2_Witness ==
    /\ cpc = "made" /\ op = OpConstant /\ operands = <<65534>>
    /\ instruction = <<OpConstant, 255, 254>>

\* C3: Lookup(b) returns a Definition and no error exactly for the 24 tags,
\* a not-found error for every other byte, and Make returns the empty
\* sequence exactly for the bytes on which Lookup fails.
C3_Definedness ==
    /\ Cardinality(OpcodeTags) = 24
    /\ cpc \in {"looked", "made", "read", "panic"} =>
         /\ lookupRes.err = NoErr <=> op \in OpcodeTags
         /\ lookupRes.err = NoErr => lookupRes.def # NilDef
         /\ lookupRes.err # NoErr =>
              /\ lookupRes.def = NilDef
              /\ lookupRes.err = "opcode " \o FmtD(op) \o " undefined"
    /\ cpc \in {"made", "read"} => (instruction = <<>> <=> lookupRes.err # NoErr)

C3_Witness ==
    /\ cpc = "made" /\ op = 24 /\ operands = <<0>>
    /\ lookupRes.err = "opcode 24 undefined"
    /\ instruction = <<>>

\* Make was handed one operand outside 0..65535 for a 2-byte field
C11_Overflowing ==
    /\ HasOperands(op)
    /\ Len(operands) = 1
    /\ operands[1] \notin 0..MaxUint16

\* C11: for an opcode with a 2-byte operand and an operand o outside
\* 0..65535, Make reports no error and writes the two bytes of o mod 65536,
\* so ReadOperands returns o mod 65536, which is not o.
C11_OperandWraps ==
    C11_Overflowing =>
        /\ cpc # "panic"
        /\ cpc \in {"made", "read"} =>
             instruction = <<op, (operands[1] % 65536) \div 256,
                                 (operands[1] % 65536) % 256>>
        /\ cpc = "read" =>
             /\ readRes.operands = <<operands[1] % 65536>>
             /\ readRes.operands # operands
             /\ readRes.offset = 2

\* Make(OpConstant, 65790): 65790 = 65536 + 254 is read back as 254
C11_Witness ==
    /\ cpc = "read" /\ op = OpConstant /\ operands = <<65790>>
    /\ instruction = <<OpConstant, 0, 254>>
    /\ readRes = [operands |-> <<254>>, offset |-> 2]

---------------------------------------------------------------------------
(* Instructions.String: one action per loop iteration *)

\* operands of the instructions a stream is built from
StreamOperands == {2, MaxUint16}

\* bytes put into a stream as they are: an opcode whose operand bytes are
\* missing, the first undefined tag, the last byte value
RawBytes == {OpConstant, 24, 255}

MakeChunks ==
    {[kind |-> "make", op |-> o, operands |-> xs] :
        o \in OpcodeTags,
        xs \in {<<>>} \cup {<<x>> : x \in StreamOperands}}

Chunks ==
    {c \in MakeChunks : MatchesDefinition(c.op, c.operands)}
        \cup {[kind |-> "raw", op |-> b, operands |-> <<>>] : b \in RawBytes}

ChunkBytes(c) == IF c.kind = "make" THEN Make(c.op, c.operands) ELSE <<c.op>>

RECURSIVE Flatten(_)
Flatten(cs) == IF cs = <<>> THEN <<>> ELSE ChunkBytes(Head(cs)) \o Flatten(Tail(cs))

DisInit ==
    /\ prog \in UNION {[1..n -> Chunks] : n \in 0..MaxChunks}
    /\ ins = Flatten(prog)
    /\ i = 0
    /\ out = ""
    /\ spc = "loop"
    /\ iter = 0
    /\ codeIdle
    /\ parseIdle

\* i += read, without the opcode byte
NextOffsetNoTag(k, read) == k + read

\* i += 1 + read
NextOffset(k, read) == k + 1 + read

\* the error branch stepping over the undefined byte
ErrorOffsetSkip(k) == k + 1

\* the error branch: continue, with i as it was
ErrorOffset(k) == k

ErrorLine(err) == "ERROR: " \o err \o "\n"

InstructionLine(k, def, ops) == Fmt04d(k) \o " " \o fmtInstruction(def, ops) \o "\n"

\* an iteration that finds a defined opcode
StringStep ==
    /\ spc = "loop"
    /\ i < Len(ins)
    /\ LET l == Lookup(At(ins, i))
       IN  /\ l.err = NoErr
           /\ ~ReadOperandsPanics(l.def, SliceFrom(ins, i + 1))
           /\ LET r == ReadOperands(l.def, SliceFrom(ins, i + 1))
              IN  /\ out' = out \o InstructionLine(i, l.def, r.operands)
                  /\ i' = NextOffset(i, r.offset)
    /\ iter' = iter + 1
    /\ UNCHANGED <<prog, ins, spc, codeVars, parseVars>>

\* an iteration that finds a defined opcode whose operand bytes are cut off:
\* ReadUint16 on fewer than two bytes
StringPanic ==
    /\ spc = "loop"
    /\ i < Len(ins)
    /\ LET l == Lookup(At(ins, i))
       IN  /\ l.err = NoErr
           /\ ReadOperandsPanics(l.def, SliceFrom(ins, i + 1))
    /\ spc' = "panic"
    /\ iter' = iter + 1
    /\ UNCHANGED <<prog, ins, i, out, codeVars, parseVars>>

\* an iteration that finds an undefined opcode
StringError ==
    /\ spc = "loop"
    /\ i < Len(ins)
    /\ iter < MaxIter
    /\ LET l == Lookup(At(ins, i))
       IN  /\ l.err # NoErr
           /\ out' = out \o ErrorLine(l.err)
    /\ i' = ErrorOffset(i)
    /\ iter' = iter + 1
    /\ UNCHANGED <<prog, ins, spc, codeVars, parseVars>>

\* the loop condition fails: return out.String()
StringReturn ==
    /\ spc = "loop"
    /\ ~(i < Len(ins))
    /\ spc' = "returned"
    /\ UNCHANGED <<prog, ins, i, out, iter, codeVars, parseVars>>

DisNext == StringStep \/ StringPanic \/ StringError \/ StringReturn

\* String runs on one goroutine and always takes its next step
SpecDis == DisInit /\ [][DisNext]_vars /\ WF_vars(DisNext)

---------------------------------------------------------------------------
(* Claims about Instructions.String, checked under SpecDis *)

\* the stream is a concatenation of Make outputs for defined opcodes
WellFormed(cs) == \A k \in 1..Len(cs) : cs[k].kind = "make"

\* the lines of the instructions of cs, the first one at byte offset
RECURSIVE ExpectedLines(_, _)
ExpectedLines(cs, offset) ==
    IF cs = <<>> THEN ""
    ELSE LET c == Head(cs)
             name == definitions[c.op].Name
             text == IF c.operands = <<>> THEN name
                     ELSE name \o " " \o FmtD(c.operands[1])
         IN  Fmt04d(offset) \o " " \o text \o "\n"
                 \o ExpectedLines(Tail(cs), offset + Len(ChunkBytes(c)))

C4_Lines ==
    (spc # "idle" /\ WellFormed(prog)) =>
        /\ spc # "panic"
        /\ iter <= Len(prog)
        /\ i = Len(Flatten(SubSeq(prog, 1, iter)))
        /\ out = ExpectedLines(SubSeq(prog, 1, iter), 0)
        /\ spc = "returned" => (iter = Len(prog) /\ i = Len(ins))

\* C4: on a concatenation of Make outputs String terminates with its offset
\* at the stream length, having written one line per instruction, in order,
\* "%04d <name>" or "%04d <name> <operand>" with the instruction's byte
\* offset, and no error line.
C4_Disassembly ==
    /\ []C4_Lines
    /\ [](WellFormed(prog) => <>(spc = "returned"))

C4_Witness ==
    /\ spc = "returned"
    /\ prog = <<[kind |-> "make", op |-> OpAdd, operands |-> <<>>],
                [kind |-> "make", op |-> OpConstant, operands |-> <<2>>]>>
    /\ i = 4
    /\ out = "0000 OpAdd\n0001 OpConstant 2\n"

\* String is at an offset whose byte is no defined opcode tag
C5_Stuck == spc = "loop" /\ i < Len(ins) /\ At(ins, i) \notin OpcodeTags

\* C5: at an undefined opcode every iteration writes the same error line and
\* leaves the offset where it is, so String stays at that offset and never
\* returns.
C5_UndefinedOpcodeLoops ==
    [][C5_Stuck =>
          /\ i' = i
          /\ out' = out \o "ERROR: opcode " \o FmtD(At(ins, i)) \o " undefined\n"
          /\ C5_Stuck']_vars

C5_Witness ==
    /\ C5_Stuck
    /\ i = 1
    /\ iter = 3
    /\ out = "0000 OpAdd\nERROR: opcode 24 undefined\nERROR: opcode 24 undefined\n"

---------------------------------------------------------------------------
(* ParseProgram on the tokens of an input.  The skip loops of the let and   *)
(* return statements need not end, so a statement is parsed in steps.       *)

TokenAlphabet ==
    {Token(TokLET, "let"), Token(RETURN, "return"), Token(IDENT, "x"),
     Token(INT, "5"), Token(INT, "08"), Token(ASSIGN, "="),
     Token(SEMICOLON, ";"), Token(MINUS, "-")}

TokenInputs == UNION {[1..n -> TokenAlphabet] : n \in 0..MaxTokens}

\* "-a * b" and "a + b + c"
MinusATimesB ==
    <<Token(MINUS, "-"), Token(IDENT, "a"), Token(ASTERISK, "*"), Token(IDENT, "b")>>
APlusBPlusC ==
    <<Token(IDENT, "a"), Token(PLUS, "+"), Token(IDENT, "b"), Token(PLUS, "+"),
      Token(IDENT, "c")>>

ExpressionInputs == {MinusATimesB, APlusBPlusC}

\* "let x = 5;"  "let x 5;"  "let = 5;"  "y;"  "return 5;"
StatementCatalogue ==
    {<<Token(TokLET, "let"), Token(IDENT, "x"), Token(ASSIGN, "="), Token(INT, "5"),
       Token(SEMICOLON, ";")>>,
     <<Token(TokLET, "let"), Token(IDENT, "x"), Token(INT, "5"), Token(SEMICOLON, ";")>>,
     <<Token(TokLET, "let"), Token(ASSIGN, "="), Token(INT, "5"), Token(SEMICOLON, ";")>>,
     <<Token(IDENT, "y"), Token(SEMICOLON, ";")>>,
     <<Token(RETURN, "return"), Token(INT, "5"), Token(SEMICOLON, ";")>>}

RECURSIVE Concat(_)
Concat(ss) == IF ss = <<>> THEN <<>> ELSE Head(ss) \o Concat(Tail(ss))

StatementInputs ==
    {Concat(ss) : ss \in UNION {[1..n -> StatementCatalogue] : n \in 0..MaxStmts}}

ParseInit ==
    /\ input \in TokenInputs \cup ExpressionInputs \cup StatementInputs
    /\ p = New
    /\ program = <<>>
    /\ ppc = "loop"
    /\ stmt = NilStatement
    /\ ret = NilStatement
    /\ codeIdle
    /\ disIdle

\* parseStatement, case token.LET: parseLetStatement up to its first expectPeek
LetExpectIdent ==
    /\ ppc = "loop"
    /\ curTokenIs(p, TokLET)
    /\ LET s == Statement("*ast.LetStatement", FALSE, p.curToken, NilExpression,
                          NilExpression, p.curPos)
           r == expectPeek(p, IDENT)
       IN  /\ p' = r.q
           /\ IF r.ok
              THEN stmt' = s /\ ppc' = "letName" /\ ret' = ret
              ELSE stmt' = stmt /\ ppc' = "stmtReturned" /\ ret' = NilLetStatement(s.at)
    /\ UNCHANGED <<input, program, codeVars, disVars>>

\* parseLetStatement: the name and the second expectPeek
LetExpectAssign ==
    /\ ppc = "letName"
    /\ LET s == [stmt EXCEPT !.Name = Identifier(p.curToken, p.curToken.Literal)]
           r == expectPeek(p, ASSIGN)
       IN  /\ p' = r.q
           /\ IF r.ok
              THEN stmt' = s /\ ppc' = "letSkip" /\ ret' = ret
              ELSE stmt' = stmt /\ ppc' = "stmtReturned" /\ ret' = NilLetStatement(s.at)
    /\ UNCHANGED <<input, program, codeVars, disVars>>

\* parseLetStatement: for !p.curTokenIs(token.SEMICOLON) { p.nextToken() }
\* The loop test and the loop body are two positions: once curToken is EOF
\* the lexer hands out EOF again and the loop goes round without end.
LetSkip ==
    /\ ppc = "letSkip"
    /\ ~curTokenIs(p, SEMICOLON)
    /\ ppc' = "letSkipBody"
    /\ UNCHANGED <<input, p, program, stmt, ret, codeVars, disVars>>

LetSkipBody ==
    /\ ppc = "letSkipBody"
    /\ p' = nextToken(p)
    /\ ppc' = "letSkip"
    /\ UNCHANGED <<input, program, stmt, ret, codeVars, disVars>>

LetReturn ==
    /\ ppc = "letSkip"
    /\ curTokenIs(p, SEMICOLON)
    /\ ret' = stmt
    /\ ppc' = "stmtReturned"
    /\ UNCHANGED <<input, p, program, stmt, codeVars, disVars>>

\* parseStatement, case token.RETURN: parseReturnStatement up to its loop
ReturnBegin ==
    /\ ppc = "loop"
    /\ curTokenIs(p, RETURN)
    /\ stmt' = Statement("*ast.ReturnStatement", FALSE, p.curToken, NilExpression,
                         NilExpression, p.curPos)
    /\ p' = nextToken(p)
    /\ ppc' = "returnSkip"
    /\ UNCHANGED <<input, program, ret, codeVars, disVars>>

\* parseReturnStatement: for !p.curTokenIs(token.SEMICOLON) { p.nextToken() }
ReturnSkip ==
    /\ ppc = "returnSkip"
    /\ ~curTokenIs(p, SEMICOLON)
    /\ ppc' = "returnSkipBody"
    /\ UNCHANGED <<input, p, program, stmt, ret, codeVars, disVars>>

ReturnSkipBody ==
    /\ ppc = "returnSkipBody"
    /\ p' = nextToken(p)
    /\ ppc' = "returnSkip"
    /\ UNCHANGED <<input, program, stmt, ret, codeVars, disVars>>

ReturnReturn ==
    /\ ppc = "returnSkip"
    /\ curTokenIs(p, SEMICOLON)
    /\ ret' = stmt
    /\ ppc' = "stmtReturned"
    /\ UNCHANGED <<input, p, program, stmt, codeVars, disVars>>

\* parseStatement, default: parseExpressionStatement
ExpressionStatement ==
    /\ ppc = "loop"
    /\ ~curTokenIs(p, EOF)
    /\ ~curTokenIs(p, TokLET)
    /\ ~curTokenIs(p, RETURN)
    /\ LET r == parseExpressionStatement(p)
       IN  p' = r.q /\ ret' = r.stmt
    /\ ppc' = "stmtReturned"
    /\ UNCHANGED <<input, program, stmt, codeVars, disVars>>

\* ParseProgram: if stmt != nil { append }; p.nextToken()
AppendStatement ==
    /\ ppc = "stmtReturned"
    /\ program' = IF StatementNotNil(ret) THEN Append(program, ret) ELSE program
    /\ p' = loopAdvance(p)
    /\ ppc' = "loop"
    /\ UNCHANGED <<input, stmt, ret, codeVars, disVars>>

\* ParseProgram: the loop condition fails on EOF
ProgramReturn ==
    /\ ppc = "loop"
    /\ curTokenIs(p, EOF)
    /\ ppc' = "done"
    /\ UNCHANGED <<input, p, program, stmt, ret, codeVars, disVars>>

ParseNext ==
    \/ LetExpectIdent \/ LetExpectAssign \/ LetSkip \/ LetSkipBody \/ LetReturn
    \/ ReturnBegin \/ ReturnSkip \/ ReturnSkipBody \/ ReturnReturn
    \/ ExpressionStatement \/ AppendStatement \/ ProgramReturn

\* the parser runs on one goroutine and always takes its next step
SpecParse == ParseInit /\ [][ParseNext]_vars /\ WF_vars(ParseNext)

---------------------------------------------------------------------------
(* Claims about the parser, checked under SpecParse *)

\* the type of the token at input position k, EOF past the end
TypeAt(k) == IF k \in 1..Len(input) THEN input[k].Type ELSE EOF

\* position k follows a semicolon or is the first one
AtBoundary(k) == k = 1 \/ TypeAt(k - 1) = SEMICOLON

\* a let statement starts at position f and lacks its name or its "="
FailedLetAt(f) ==
    /\ f \in 1..Len(input)
    /\ AtBoundary(f)
    /\ TypeAt(f) = TokLET
    /\ (TypeAt(f + 1) # IDENT \/ TypeAt(f + 2) # ASSIGN)

\* the position of the token that failed the expectation of the let at f
FailPos(f) == IF TypeAt(f + 1) = IDENT THEN f + 2 ELSE f + 1

\* the position of the first semicolon after f, Len(input) + 1 without one
RECURSIVE NextSemicolon(_)
NextSemicolon(f) ==
    IF f + 1 > Len(input) \/ TypeAt(f + 1) = SEMICOLON THEN f + 1
    ELSE NextSemicolon(f + 1)

IsValue(k) ==
    \/ TypeAt(k) = IDENT
    \/ TypeAt(k) = INT /\ ParseInt(input[k].Literal).ok

\* the type of the well-formed statement that starts at position k, "" if none
WellFormedAt(k) ==
    IF ~AtBoundary(k) THEN ""
    ELSE IF /\ TypeAt(k) = TokLET /\ TypeAt(k + 1) = IDENT /\ TypeAt(k + 2) = ASSIGN
            /\ IsValue(k + 3) /\ TypeAt(k + 4) = SEMICOLON
    THEN "*ast.LetStatement"
    ELSE IF TypeAt(k) = RETURN /\ IsValue(k + 1) /\ TypeAt(k + 2) = SEMICOLON
    THEN "*ast.ReturnStatement"
    ELSE IF IsValue(k) /\ TypeAt(k + 1) = SEMICOLON
    THEN "*ast.ExpressionStatement"
    ELSE ""

\* C6: ParseProgram on "-a * b" yields a Program whose String() is
\* "((-a) * b)", and on "a + b + c" one whose String() is "((a + b) + c)".
C6_Precedence ==
    ppc = "done" =>
        /\ input = MinusATimesB =>
             ~ProgramStringPanics(program) /\ ProgramString(program) = "((-a) * b)"
        /\ input = APlusBPlusC =>
             ~ProgramStringPanics(program) /\ ProgramString(program) = "((a + b) + c)"

\* C7: on every finite token sequence closed by EOF, ParseProgram terminates,
\* with the current token being EOF.
C7_RunsToEnd == <>(ppc = "done" /\ p.curToken.Type = EOF)

IsPrefix(s, t) == Len(s) <= Len(t) /\ SubSeq(t, 1, Len(s)) = s

\* a failed expectPeek in a let statement consumes no token and appends its
\* one message to the end of the error list
C8_FailedExpect ==
    [][(ppc \in {"loop", "letName"} /\ ppc' = "stmtReturned" /\ ret'.isNil) =>
          /\ p'.l = p.l
          /\ p'.curToken = p.curToken
          /\ p'.peekToken = p.peekToken
          /\ p'.curPos = p.curPos
          /\ p'.errors = Append(p.errors,
                "expected next token to be "
                    \o (IF ppc = "loop" THEN "IDENT" ELSE "=")
                    \o ", got " \o p.peekToken.Type \o " instead")]_vars

\* messages in the list are never removed or reordered
C8_ErrorsKept == [][IsPrefix(p.errors, p'.errors)]_vars

\* after ParseProgram every well-formed statement that follows a failed let
\* is an element of Program.Statements
C8_Following ==
    ppc = "done" =>
        \A k \in 1..Len(input) :
            (WellFormedAt(k) # "" /\ \E f \in 1..(k - 1) : FailedLetAt(f)) =>
                \E j \in 1..Len(program) :
                    /\ program[j].at = k
                    /\ program[j].type = WellFormedAt(k)
                    /\ ~program[j].isNil
                    /\ program[j].Token = input[k]

\* C8: a failed expectPeek of a let statement consumes no token and appends
\* one message "expected next token to be X, got Y instead"; messages are
\* never removed or reordered; every well-formed statement after the failed
\* one still appears in Program.Statements.
C8_ErrorsAccumulate == C8_FailedExpect /\ C8_ErrorsKept /\ []C8_Following

\* "let x 5; y;"
C8_Witness ==
    /\ ppc = "done"
    /\ input = <<Token(TokLET, "let"), Token(IDENT, "x"), Token(INT, "5"),
                 Token(SEMICOLON, ";"), Token(IDENT, "y"), Token(SEMICOLON, ";")>>
    /\ p.errors = <<"expected next token to be =, got INT instead">>
    /\ \E j \in 1..Len(program) :
          /\ program[j].at = 5
          /\ program[j].type = "*ast.ExpressionStatement"
          /\ program[j].Expression = Identifier(Token(IDENT, "y"), "y")

\* C9 as claimed: the tokens of a failed let statement after the let, up to
\* and including its semicolon, start no statement of Program.Statements.
C9_Resynchronizes ==
    \A f \in 1..Len(input) :
        FailedLetAt(f) =>
            \A j \in 1..Len(program) :
                ~(program[j].at > f /\ program[j].at <= NextSemicolon(f))

\* after a failed let ParseProgram advances by one token: the token that
\* failed the expectation becomes the current token at the loop head
C9_OneToken ==
    [][(ppc = "stmtReturned" /\ ret.isNil) =>
          /\ ppc' = "loop"
          /\ p'.curToken = p.peekToken
          /\ p'.curPos = Min(p.curPos + 1, Len(input) + 1)]_vars

\* the token that failed the expectation starts a statement of its own
C9_OwnStatement ==
    \A f \in 1..Len(input) :
        (/\ FailedLetAt(f)
         /\ FailPos(f) <= Len(input)
         /\ ppc \in {"loop", "done"}
         /\ p.curPos > FailPos(f)) =>
            \E j \in 1..Len(program) : program[j].at = FailPos(f)

\* C9 as amended: after a failed expectPeek in a let statement nothing is
\* skipped: ParseProgram advances by one token and the token that failed the
\* expectation starts the next statement parsed.
C9_NoResynchronization == C9_OneToken /\ []C9_OwnStatement

\* "let x 5;": the 5 is parsed as an expression statement
C9_Witness ==
    /\ ppc = "done"
    /\ input = <<Token(TokLET, "let"), Token(IDENT, "x"), Token(INT, "5"),
                 Token(SEMICOLON, ";")>>
    /\ \E j \in 1..Len(program) :
          /\ program[j].at = 3
          /\ program[j].type = "*ast.ExpressionStatement"
          /\ program[j].Expression = IntegerLiteral(Token(INT, "5"), 5)

\* C10: every element of Program.Statements is a non-nil statement; a let
\* statement whose expectPeek failed adds no element.
C10_OnlyRealStatements ==
    \A j \in 1..Len(program) : program[j].type # "nil" /\ ~program[j].isNil

====
